---- MODULE Spec2Model ----
(***************************************************************************)
(* MCP bridge (apps/backend/core/mcp_bridge.py): MCPServerProcess (one     *)
(* subprocess speaking line-delimited JSON-RPC) and MCPBridge (the pool of *)
(* server processes, the tool -> server routing table, call_tool).         *)
(*                                                                         *)
(* Strings are sequences of tokens (<<"mcp","__","docs","__","lookup">> is *)
(* "mcp__docs__lookup"); the tokens form a prefix code, so concatenation,  *)
(* startswith and slicing on token sequences agree with the same           *)
(* operations on the characters.                                           *)
(*                                                                         *)
(* One step of the model is the code an asyncio task runs between two      *)
(* awaits.  Scope: one start_servers() or stop_servers() is in progress at *)
(* a time; call_tool, the subprocesses, the read loops and the timers      *)
(* interleave freely with it.                                              *)
(***************************************************************************)
EXTENDS Integers, Sequences, FiniteSets, TLC

\* ------------------------------------------------------------------ bounds
\* start_servers, stop_servers and call_tool invocations in one behaviour:
\* of a Bridge with one server process, and of a Bridge with several
MaxOps == 3
MaxOpsMulti == 2
\* things going wrong in one behaviour (a spawn that fails, an error reply, a
\* line that is no JSON, a process that exits, a reply that is too slow):
\* with one server process, and with several
MaxFaults == 1
MaxFaultsMulti == 1

\* ----------------------------------------------------------------- strings
StartsWith(s, p) == Len(p) <= Len(s) /\ SubSeq(s, 1, Len(p)) = p

\* s[len(p):]
DropPrefix(s, p) == SubSeq(s, Len(p) + 1, Len(s))

Contains(s, t) == \E i \in 1..Len(s) : s[i] = t

\* f"mcp__{name}__"
Prefix(name) == <<"mcp", "__">> \o name \o <<"__">>

\* f"mcp__{name}__{tool.name}"
PrefixedName(name, tool) == Prefix(name) \o tool

\* the namespaced form "<serviceName>__<toolName>"
SpecName(name, tool) == name \o <<"__">> \o tool

\* ---------------------------------------------------------- configurations
\* mcp_servers as handed to MCPBridge(...): name, config["type"], and what
\* the service behind the command answers to tools/list.
Entry(n, ty, ts) == [name |-> n, type |-> ty, svc_tools |-> ts]

CfgOne == << Entry(<<"docs">>, "stdio", << <<"lookup">>, <<"fetch">> >>) >>

CfgTwo ==
    << Entry(<<"docs">>, "stdio", << <<"lookup">> >>),
       Entry(<<"search">>, "stdio", << <<"lookup">> >>) >>

\* names that contain the separator: both namespaced names read
\* "mcp__docs__x__lookup"
CfgSep ==
    << Entry(<<"docs">>, "stdio", << <<"x", "__", "lookup">> >>),
       Entry(<<"docs", "__", "x">>, "stdio", << <<"lookup">> >>) >>

\* a bare tool name that begins with its own service's prefix
CfgOwn ==
    << Entry(<<"docs">>, "stdio",
             << <<"lookup">>, <<"mcp", "__", "docs", "__", "lookup">> >>) >>

CfgHttp ==
    << Entry(<<"docs">>, "stdio", << <<"lookup">> >>),
       Entry(<<"web">>, "http", << <<"browse">> >>) >>

Configs == {CfgOne, CfgOwn, CfgTwo, CfgSep, CfgHttp}

VARIABLES
    mcp_servers,       \* the configuration the Bridge was constructed with
    process,           \* _process: "none" | "alive" | "exited" (returncode set)
    tools,             \* _tools: the sequence of tool names of each server
    request_id,        \* _request_id
    pending_requests,  \* _pending_requests: the ids with a pending future
    read_task,         \* _read_task: "none" | "awaiting" | "done" | "cancelled"
    calls,             \* the _send_request invocations that have not returned
                       \* to their caller yet, in allocation order
    allocated,         \* every request id handed out, in allocation order
    timedOut,          \* the request ids whose _send_request raised TimeoutError
    inbox,             \* requests the subprocess has received and not answered
    stdout,            \* lines the subprocess wrote and the read loop has not read
    stdin_lost,        \* the stdin pipe of the subprocess is closed at its end
    warnings,          \* logger.warning("Invalid JSON ...") entries
    notified,          \* notifications/initialized lines written
    tool_to_server,    \* _tool_to_server
    bridgeOp,          \* "idle" | "start" | "stop"
    startPc,           \* position of each start() inside start_servers()
    startReq,          \* the request id the start() is waiting on
    stopPc,            \* position of each stop() inside stop_servers()
    lastStart,         \* outcome of the last start_servers()
    lastCall,          \* what the last Bridge.call_tool did
    lastResult,        \* the last MCPToolResult a server's call_tool returned
    written,           \* the lines written to the stdin of the subprocess that
                       \* _process refers to, as [method, id] (id 0: none)
    cancelled,         \* ids in _pending_requests whose future is cancelled
    stalled,           \* the subprocess has stopped reading its stdin, and the
                       \* pipe and the write buffer are full
    lastStop,          \* outcome of the last stop_servers()
    second,            \* a start() of the connection called by itself, not by
                       \* start_servers(): its position and its request id
    orphans,           \* live subprocesses that no _process refers to
    ops,
    faults,
    ta_in,             \* the arguments of a TaskAnalyzer.analyze call
    ta_out             \* the provider_type it recommends for each phase

vars ==
    << mcp_servers, process, tools, request_id, pending_requests, read_task,
       calls, allocated, timedOut, inbox, stdout, stdin_lost, warnings,
       notified, tool_to_server,
       bridgeOp, startPc, startReq, stopPc, lastStart, lastCall, lastResult,
       written, cancelled, stalled, lastStop, second, orphans,
       ops, faults, ta_in, ta_out >>

\* what no step of the Bridge changes
fixedVars == << mcp_servers, ta_in, ta_out >>

\* the variables of the Bridge and its connections
mcpVars ==
    << mcp_servers, process, tools, request_id, pending_requests, read_task,
       calls, allocated, timedOut, inbox, stdout, stdin_lost, warnings,
       notified, tool_to_server,
       bridgeOp, startPc, startReq, stopPc, lastStart, lastCall, lastResult,
       written, cancelled, stalled, lastStop, second, orphans,
       ops, faults >>

connVars ==
    << process, tools, request_id, pending_requests, read_task, calls,
       allocated, timedOut, inbox, stdout, stdin_lost, warnings, notified >>

bridgeVars ==
    << tool_to_server, bridgeOp, startPc, startReq, stopPc, lastStart, lastCall,
       ops >>

\* ------------------------------------------------------------- MCPBridge()
\* a bug: every entry gets an MCPServerProcess
ServerSeqAll(cfg) == cfg

\* self._servers: entries of type "http" get no MCPServerProcess
ServerSeq(cfg) == SelectSeq(cfg, LAMBDA e : e.type # "http")

ServerNames(cfg) == {ServerSeq(cfg)[i].name : i \in 1..Len(ServerSeq(cfg))}

Servers == ServerNames(mcp_servers)

SvcTools(s) ==
    LET i == CHOOSE j \in 1..Len(mcp_servers) : mcp_servers[j].name = s
    IN  mcp_servers[i].svc_tools

\* None where a result or a content is expected
NoVal == [tag |-> 0, tools |-> <<>>]

\* None where a string is expected (<<>> is the empty string)
None == << "<None>" >>

NoStop == [n |-> 0, raised |-> FALSE, failed |-> {}]

\* no start() of its own is under way
NoSecond == [pc |-> "idle", req |-> 0]

\* an MCPToolResult as its caller gets it (raised: the call did not return
\* one, an exception came out of it); this one: no call has returned yet
NoResult == [server |-> <<>>, id |-> 0, success |-> FALSE, content |-> NoVal,
             error |-> None, raised |-> FALSE]

NoCall == [n |-> 0, name |-> <<>>, kind |-> "none", server |-> <<>>,
           id |-> 0, wire |-> <<>>, error |-> <<>>, result |-> NoResult]

NoStart == [n |-> 0, raised |-> FALSE, ok |-> {}, failed |-> {}]

\* no analyze call has been made
NoInput == [len |-> 0, ts_markers |-> 0, quick_marker |-> FALSE,
            user_defaults |-> [planning |-> "", coding |-> "", qa |-> ""],
            rate_limited_providers |-> {}]

NoOutput == [planning |-> "", coding |-> "", qa |-> ""]

\* the Bridge as constructed from the configuration cfg
InitBridge(cfg) ==
    /\ mcp_servers = cfg
    /\ process = [s \in Servers |-> "none"]
    /\ tools = [s \in Servers |-> <<>>]
    /\ request_id = [s \in Servers |-> 0]
    /\ pending_requests = [s \in Servers |-> {}]
    /\ read_task = [s \in Servers |-> "none"]
    /\ calls = [s \in Servers |-> <<>>]
    /\ allocated = [s \in Servers |-> <<>>]
    /\ timedOut = [s \in Servers |-> {}]
    /\ inbox = [s \in Servers |-> {}]
    /\ stdout = [s \in Servers |-> <<>>]
    /\ stdin_lost = [s \in Servers |-> FALSE]
    /\ warnings = [s \in Servers |-> 0]
    /\ notified = [s \in Servers |-> 0]
    /\ tool_to_server = [k \in {} |-> <<>>]
    /\ bridgeOp = "idle"
    /\ startPc = [s \in Servers |-> "idle"]
    /\ startReq = [s \in Servers |-> 0]
    /\ stopPc = [s \in Servers |-> "idle"]
    /\ lastStart = NoStart
    /\ lastCall = NoCall
    /\ lastResult = NoResult
    /\ written = [s \in Servers |-> <<>>]
    /\ cancelled = [s \in Servers |-> {}]
    /\ stalled = [s \in Servers |-> FALSE]
    /\ lastStop = NoStop
    /\ second = [s \in Servers |-> NoSecond]
    /\ orphans = [s \in Servers |-> 0]
    /\ ops = 0
    /\ faults = 0

Init ==
    /\ \E cfg \in Configs : InitBridge(cfg)
    /\ ta_in = NoInput
    /\ ta_out = NoOutput

Several == Cardinality(Servers) > 1

OpsLeft == ops < (IF Several THEN MaxOpsMulti ELSE MaxOps)

FaultsLeft == faults < (IF Several THEN MaxFaultsMulti ELSE MaxFaults)

\* -------------------------------------------------------- MCPServerProcess
is_running(s) == process[s] = "alive"

\* the _send_request invocation c has returned or raised to the start() that
\* awaits it
Returned(c) == c.st \notin {"waiting", "cancelled", "draining"}

\* one invocation suspended in await self._process.stdin.drain(): the write
\* buffer is over its high-water mark and the process does not read
DrainingCall(id, method) ==
    [id |-> id, method |-> method, st |-> "draining", val |-> NoVal,
     err |-> <<>>]

\* one _send_request invocation waiting on its future
NewCall(id, method) ==
    [id |-> id, method |-> method, st |-> "waiting", val |-> NoVal, err |-> <<>>]

\* a bug: the id is taken from the number of requests that are outstanding
NextRequestIdFromPending(s) == Cardinality(pending_requests[s]) + 1

\* self._request_id += 1; request_id = self._request_id
NextRequestId(s) == request_id[s] + 1

\* a line on stdin
Req(method, id) == [method |-> method, id |-> id]

\* {"jsonrpc": "2.0", "method": "notifications/initialized"}: no id
Notification == Req("notifications/initialized", 0)

\* a bug: tools/list is sent before the initialized notification
ListBeforeInitialized(w, id) == w \o << Req("tools/list", id), Notification >>

\* what _initialize and _list_tools write once initialize has returned
ListAfterInitialized(w, id) == w \o << Notification, Req("tools/list", id) >>

\* _send_request up to its await on the future: allocate the id, register the
\* future, write the request line to stdin.  (The caller has checked
\* is_running; q is calls[s], less the invocation the caller has just
\* returned from; w is what stdin has been given, this request included:
\* when the request is the first one, the process is new and holds nothing
\* else.)
send_request(s, q, w, method, name) ==
    LET id == NextRequestId(s)
    IN  /\ request_id' = [request_id EXCEPT ![s] = id]
        /\ written' = [written EXCEPT ![s] = w]
        /\ allocated' = [allocated EXCEPT ![s] = Append(@, id)]
        /\ pending_requests' = [pending_requests EXCEPT ![s] = @ \cup {id}]
        /\ calls' = [calls EXCEPT ![s] = Append(q, NewCall(id, method))]
        /\ inbox' = [inbox EXCEPT ![s] =
                        (IF w = << Req(method, id) >> THEN {} ELSE @)
                        \cup {[id |-> id, method |-> method, name |-> name]}]

\* _send_request when the process has stopped reading its stdin: the id is
\* allocated, the future registered and the line handed to the transport,
\* then drain() does not return; wait_for has not been reached
send_request_stalled(s, q, w, method) ==
    LET id == NextRequestId(s)
    IN  /\ request_id' = [request_id EXCEPT ![s] = id]
        /\ written' = [written EXCEPT ![s] = w]
        /\ allocated' = [allocated EXCEPT ![s] = Append(@, id)]
        /\ pending_requests' = [pending_requests EXCEPT ![s] = @ \cup {id}]
        /\ calls' = [calls EXCEPT ![s] = Append(q, DrainingCall(id, method))]
        /\ UNCHANGED inbox

\* index in calls[s] of the invocation that was given request id `id`
CallIndex(s, id) == CHOOSE i \in 1..Len(calls[s]) : calls[s][i].id = id

CallOf(s, id) == calls[s][CallIndex(s, id)]

\* calls[s] without its i-th entry: the invocation returned to its caller
Without(q, i) == SubSeq(q, 1, i - 1) \o SubSeq(q, i + 1, Len(q))

\* str(AttributeError) of None.get
NoneHasNoGet == <<"'NoneType' object has no attribute 'get'">>

\* a bug: result.get("content", []) stands outside the try block
ToolResultUncaught(s, id, st, val, err) ==
    IF st = "result"
    THEN [server |-> s, id |-> id, success |-> TRUE, content |-> val,
          error |-> None, raised |-> FALSE]
    ELSE [server |-> s, id |-> id, success |-> FALSE, content |-> NoVal,
          error |-> IF st = "none" THEN NoneHasNoGet ELSE err,
          raised |-> st = "none"]

\* a bug: the except block passes on what it has of the result
ToolResultPartial(s, id, st, val, err) ==
    IF st = "result"
    THEN [server |-> s, id |-> id, success |-> TRUE, content |-> val,
          error |-> None, raised |-> FALSE]
    ELSE [server |-> s, id |-> id, success |-> FALSE,
          content |-> [tag |-> id, tools |-> <<>>],
          error |-> IF st = "none" THEN NoneHasNoGet ELSE err,
          raised |-> FALSE]

\* MCPServerProcess.call_tool: the result of _send_request, or the exception
\* that came out of the try block (a result that is None makes result.get
\* raise AttributeError), as an MCPToolResult
ToolResult(s, id, st, val, err) ==
    IF st = "result"
    THEN [server |-> s, id |-> id, success |-> TRUE, content |-> val,
          error |-> None, raised |-> FALSE]
    ELSE [server |-> s, id |-> id, success |-> FALSE, content |-> NoVal,
          error |-> IF st = "none" THEN NoneHasNoGet ELSE err,
          raised |-> FALSE]

\* calls[s] and lastResult after the invocation at index i ended with
\* (st, val, err): _initialize and _list_tools pick their outcome up in the
\* start() that awaits them, call_tool returns an MCPToolResult
Finish(s, i, st, val, err) ==
    LET c == calls[s][i]
    IN  IF c.method = "tools/call"
        THEN /\ calls' = [calls EXCEPT ![s] = Without(@, i)]
             /\ lastResult' = ToolResult(s, c.id, st, val, err)
        ELSE /\ calls' = [calls EXCEPT ![s][i].st = st, ![s][i].val = val,
                                       ![s][i].err = err]
             /\ UNCHANGED lastResult

\* a bug: the timeout handler empties the whole map
PendingClearedOnTimeout(s, id) == {}

\* del self._pending_requests[request_id]
PendingAfterTimeout(s, id) == pending_requests[s] \ {id}

\* no response to request `id` can reach its future any more
Lost(s, id) ==
    \/ read_task[s] # "awaiting"
    \/ /\ \A r \in inbox[s] : r.id # id
       /\ \A i \in 1..Len(stdout[s]) : stdout[s][i].id # id

\* str(KeyError(request_id))
KeyErrorText(id) == << "KeyError", id >>

\* except asyncio.TimeoutError: the wait_for of one _send_request ran out,
\* because the response is lost or because it is slow
Timeout(s) ==
    \E i \in 1..Len(calls[s]) :
        LET c == calls[s][i]
        IN  /\ c.st = "waiting"
            /\ \/ /\ Lost(s, c.id)
                  /\ UNCHANGED << faults, cancelled >>
                  /\ IF c.id \in pending_requests[s]
                     THEN /\ pending_requests' =
                                [pending_requests EXCEPT
                                    ![s] = PendingAfterTimeout(s, c.id)]
                          /\ timedOut' = [timedOut EXCEPT ![s] = @ \cup {c.id}]
                          /\ Finish(s, i, "timeout", NoVal,
                                    <<"MCP request ", c.method, " timed out">>)
                     ELSE \* the read loop has popped the entry: del raises
                          \* KeyError(request_id)
                          /\ Finish(s, i, "error", NoVal, KeyErrorText(c.id))
                          /\ UNCHANGED << pending_requests, timedOut >>
               \/ \* the response is on its way: wait_for cancels the future,
                  \* and _send_request resumes in a later turn of the loop
                  /\ ~Lost(s, c.id)
                  /\ FaultsLeft
                  /\ faults' = faults + 1
                  /\ calls' = [calls EXCEPT ![s][i].st = "cancelled"]
                  /\ cancelled' = [cancelled EXCEPT ![s] = @ \cup {c.id}]
                  /\ UNCHANGED << pending_requests, timedOut, lastResult >>
            /\ UNCHANGED << fixedVars, written, stalled, lastStop, second,
                            orphans, process, tools, request_id, read_task,
                            allocated, inbox, stdout, stdin_lost, warnings,
                            notified, bridgeVars >>

\* _send_request resumes after wait_for has cancelled the future:
\* del self._pending_requests[request_id]; raise TimeoutError
TimeoutRaise(s) ==
    \E i \in 1..Len(calls[s]) :
        LET c == calls[s][i]
        IN  /\ c.st = "cancelled"
            /\ cancelled' = [cancelled EXCEPT ![s] = @ \ {c.id}]
            /\ IF c.id \in pending_requests[s]
               THEN /\ pending_requests' =
                          [pending_requests EXCEPT
                              ![s] = PendingAfterTimeout(s, c.id)]
                    /\ timedOut' = [timedOut EXCEPT ![s] = @ \cup {c.id}]
                    /\ Finish(s, i, "timeout", NoVal,
                              <<"MCP request ", c.method, " timed out">>)
               ELSE /\ Finish(s, i, "error", NoVal, KeyErrorText(c.id))
                    /\ UNCHANGED << pending_requests, timedOut >>
            /\ UNCHANGED << fixedVars, written, stalled, lastStop, second,
                            orphans, process, tools, request_id, read_task,
                            allocated, inbox, stdout, stdin_lost, warnings,
                            notified, bridgeVars, faults >>

\* the task that awaits a call_tool is cancelled by its owner: CancelledError
\* goes through wait_for (which cancels the future), _send_request and
\* call_tool; nothing removes the pending entry
CancelCaller(s) ==
    \E i \in 1..Len(calls[s]) :
        LET c == calls[s][i]
        IN  /\ c.st = "waiting"
            /\ c.method = "tools/call"
            /\ FaultsLeft
            /\ faults' = faults + 1
            /\ calls' = [calls EXCEPT ![s] = Without(@, i)]
            /\ cancelled' = [cancelled EXCEPT
                                ![s] = @ \cup ({c.id} \cap pending_requests[s])]
            /\ UNCHANGED << fixedVars, written, stalled, lastStop, second,
                            orphans, process, tools, request_id,
                            pending_requests, read_task, allocated, timedOut,
                            inbox, stdout, stdin_lost, warnings, notified,
                            bridgeVars, lastResult >>

\* a bug: a response goes to the oldest outstanding request (send order)
MatchOldest(s, id) ==
    IF id # 0 /\ pending_requests[s] # {}
    THEN CHOOSE m \in pending_requests[s] : \A k \in pending_requests[s] : m <= k
    ELSE 0

\* request_id and request_id in self._pending_requests: the pending entry a
\* response with this id is delivered to (0: none)
MatchPending(s, id) == IF id # 0 /\ id \in pending_requests[s] THEN id ELSE 0

\* while self.is_running: the loop goes on to the next readline
AfterLine(s) == IF is_running(s) THEN "awaiting" ELSE "done"

\* one iteration of _read_responses: readline() returned
ReadResponses(s) ==
    /\ read_task[s] = "awaiting"
    /\ IF stdout[s] # <<>>
       THEN LET line == Head(stdout[s])
                m == MatchPending(s, line.id)
            IN  /\ stdout' = [stdout EXCEPT ![s] = Tail(@)]
                /\ CASE line.kind \in {"binary", "nondict"} ->
                            \* line.decode() raises UnicodeDecodeError, or
                            \* response.get raises AttributeError on JSON that
                            \* is no object: neither is a JSONDecodeError, and
                            \* except Exception ends the loop
                            /\ read_task' = [read_task EXCEPT ![s] = "done"]
                            /\ UNCHANGED << pending_requests, calls, lastResult,
                                            warnings, cancelled >>
                     [] line.kind = "text" ->
                            \* json.JSONDecodeError: logger.warning, next line
                            /\ warnings' = [warnings EXCEPT ![s] = @ + 1]
                            /\ read_task' = [read_task EXCEPT ![s] = AfterLine(s)]
                            /\ UNCHANGED << pending_requests, calls, lastResult,
                                            cancelled >>
                     [] OTHER ->
                            /\ UNCHANGED warnings
                            /\ IF m = 0
                               THEN /\ read_task' =
                                         [read_task EXCEPT ![s] = AfterLine(s)]
                                    /\ UNCHANGED << pending_requests, calls,
                                                    lastResult, cancelled >>
                               ELSE \* future = self._pending_requests.pop(id)
                                    /\ pending_requests' =
                                         [pending_requests EXCEPT ![s] = @ \ {m}]
                                    /\ cancelled' =
                                         [cancelled EXCEPT ![s] = @ \ {m}]
                                    /\ IF \/ line.kind = "baderror"
                                          \/ m \in cancelled[s]
                                       THEN \* response["error"].get raises
                                            \* AttributeError, or the future
                                            \* is cancelled and set_result
                                            \* raises InvalidStateError
                                            /\ read_task' =
                                                 [read_task EXCEPT ![s] = "done"]
                                            /\ UNCHANGED << calls, lastResult >>
                                       ELSE /\ read_task' =
                                                 [read_task EXCEPT
                                                     ![s] = AfterLine(s)]
                                            /\ Finish(s, CallIndex(s, m),
                                                      line.kind, line.val,
                                                      line.msg)
       ELSE \* if not line: break  (end of file: the process is gone)
            /\ process[s] # "alive"
            /\ read_task' = [read_task EXCEPT ![s] = "done"]
            /\ UNCHANGED << stdout, pending_requests, calls, lastResult,
                            warnings, cancelled >>
    /\ UNCHANGED << fixedVars, written, stalled, lastStop, second, orphans,
                    process, tools, request_id, allocated, timedOut, inbox,
                    stdin_lost, notified, bridgeVars, faults >>

\* ------------------------------------------------------- the subprocesses
Line(kind, id, val, msg) == [kind |-> kind, id |-> id, val |-> val, msg |-> msg]

\* what a service answers: its tool list to tools/list; every result names
\* the request it answers
ResultOf(s, r) ==
    [tag |-> r.id, tools |-> IF r.method = "tools/list" THEN SvcTools(s) ELSE <<>>]

\* the service answers one of the requests it holds, in any order: with a
\* result, with a JSON-RPC error object (its message may be empty), with an
\* "error" that is no object, or with a response that has neither "result"
\* nor "error"
SvcReply(s) ==
    /\ process[s] = "alive"
    /\ \E r \in inbox[s] :
          /\ inbox' = [inbox EXCEPT ![s] = @ \ {r}]
          /\ \/ /\ stdout' = [stdout EXCEPT ![s] =
                        Append(@, Line("result", r.id, ResultOf(s, r), <<>>))]
                /\ UNCHANGED faults
             \/ /\ FaultsLeft
                /\ faults' = faults + 1
                /\ \E l \in {Line("error", r.id, NoVal, <<"boom">>),
                              Line("error", r.id, NoVal, <<>>),
                              Line("baderror", r.id, NoVal, <<>>),
                              Line("none", r.id, NoVal, <<>>)} :
                      stdout' = [stdout EXCEPT ![s] = Append(@, l)]
    /\ UNCHANGED << fixedVars, written, cancelled, stalled, lastStop, second,
                    orphans, process, tools, request_id, pending_requests,
                    read_task, calls, allocated, timedOut, stdin_lost,
                    warnings, notified, bridgeVars, lastResult >>

\* the service writes a line that is no response: text that is no JSON, bytes
\* that are no UTF-8, or JSON that is no object
SvcNoise(s) ==
    /\ process[s] = "alive"
    /\ FaultsLeft
    /\ faults' = faults + 1
    /\ \E k \in {"text", "binary", "nondict"} :
          stdout' = [stdout EXCEPT ![s] = Append(@, Line(k, 0, NoVal, <<>>))]
    /\ UNCHANGED << fixedVars, written, cancelled, stalled, lastStop, second,
                    orphans, process, tools, request_id, pending_requests,
                    read_task, calls, allocated, timedOut, inbox, stdin_lost,
                    warnings, notified, bridgeVars, lastResult >>

\* the process exits by itself: returncode is set, what it wrote stays
\* readable, then stdout is at end of file
SvcExit(s) ==
    /\ process[s] = "alive"
    /\ FaultsLeft
    /\ faults' = faults + 1
    /\ process' = [process EXCEPT ![s] = "exited"]
    /\ inbox' = [inbox EXCEPT ![s] = {}]
    /\ stalled' = [stalled EXCEPT ![s] = FALSE]
    /\ UNCHANGED << fixedVars, written, cancelled, lastStop, second,
                    orphans, tools, request_id, pending_requests, read_task,
                    calls, allocated, timedOut, stdout, stdin_lost, warnings,
                    notified, bridgeVars, lastResult >>

\* the service closes its end of the stdin pipe and keeps running: from now
\* on stdin.drain() raises ConnectionResetError("Connection lost")
SvcCloseStdin(s) ==
    /\ process[s] = "alive"
    /\ ~stdin_lost[s]
    /\ FaultsLeft
    /\ faults' = faults + 1
    /\ stdin_lost' = [stdin_lost EXCEPT ![s] = TRUE]
    /\ UNCHANGED << fixedVars, written, cancelled, stalled, lastStop, second,
                    orphans, process, tools, request_id, pending_requests,
                    read_task, calls, allocated, timedOut, inbox, stdout,
                    warnings, notified, bridgeVars, lastResult >>

\* the service stops reading its stdin while the pipe and the write buffer of
\* the transport are full (it hangs, or it is blocked itself writing to the
\* stderr pipe that nobody reads)
SvcStall(s) ==
    /\ process[s] = "alive"
    /\ ~stdin_lost[s]
    /\ ~stalled[s]
    /\ FaultsLeft
    /\ faults' = faults + 1
    /\ stalled' = [stalled EXCEPT ![s] = TRUE]
    /\ UNCHANGED << fixedVars, written, cancelled, lastStop, second, orphans,
                    process, tools, request_id, pending_requests, read_task,
                    calls, allocated, timedOut, inbox, stdout, stdin_lost,
                    warnings, notified, bridgeVars, lastResult >>

\* await self._process.stdin.drain() raises once the pipe is gone: the
\* process has exited or was terminated by stop(), or stdin was closed.  The
\* exception has an empty message; the pending entry stays.
DrainFails(s) ==
    \E i \in 1..Len(calls[s]) :
        /\ calls[s][i].st = "draining"
        /\ ~is_running(s) \/ stdin_lost[s]
        /\ Finish(s, i, "error", NoVal, <<>>)
        /\ UNCHANGED << fixedVars, written, cancelled, stalled, lastStop,
                        second, orphans, process, tools, request_id,
                        pending_requests, read_task, allocated, timedOut,
                        inbox, stdout, stdin_lost, warnings, notified,
                        bridgeVars, faults >>

\* the 30 s of a wait_for run out while the response can still come: as the
\* second case of Timeout, at no cost
TimeoutAny(s) ==
    \E i \in 1..Len(calls[s]) :
        LET c == calls[s][i]
        IN  /\ c.st = "waiting"
            /\ ~Lost(s, c.id)
            /\ calls' = [calls EXCEPT ![s][i].st = "cancelled"]
            /\ cancelled' = [cancelled EXCEPT ![s] = @ \cup {c.id}]
            /\ UNCHANGED << fixedVars, written, stalled, lastStop, second,
                            orphans, process, tools, request_id,
                            pending_requests, read_task, allocated, timedOut,
                            inbox, stdout, stdin_lost, warnings, notified,
                            bridgeVars, lastResult, faults >>

\* --------------------------------------------------------------- MCPBridge
\* the two registrations of every tool of one server, in order:
\* _tool_to_server[prefixed_name] = name; _tool_to_server[tool.name] = name
RECURSIVE ToolRegs(_, _)
ToolRegs(name, ts) ==
    IF ts = <<>>
    THEN <<>>
    ELSE << <<PrefixedName(name, Head(ts)), name>>, <<Head(ts), name>> >>
         \o ToolRegs(name, Tail(ts))

\* for name, server in self._servers.items(): for tool in server.get_tools()
RECURSIVE AllRegs(_, _)
AllRegs(srv, tl) ==
    IF srv = <<>>
    THEN <<>>
    ELSE ToolRegs(Head(srv).name, tl[Head(srv).name]) \o AllRegs(Tail(srv), tl)

\* a bug: a key that is registered already is not overwritten
FirstWinner(regs, k) ==
    CHOOSE i \in DOMAIN regs :
        /\ regs[i][1] = k
        /\ \A j \in DOMAIN regs : regs[j][1] = k => i <= j

\* a dict assignment overwrites: the registration that decides a key is the
\* last one made for it
Winner(regs, k) ==
    CHOOSE i \in DOMAIN regs :
        /\ regs[i][1] = k
        /\ \A j \in DOMAIN regs : regs[j][1] = k => j <= i

TableOf(regs) ==
    [k \in {regs[i][1] : i \in DOMAIN regs} |-> regs[Winner(regs, k)][2]]

\* self._tool_to_server.clear() and the loop that fills it again
BuildTable(tl) == TableOf(AllRegs(ServerSeq(mcp_servers), tl))

\* a bug: gather without return_exceptions raises the first exception
GatherRaisesFirst(pc) == \E s \in DOMAIN pc : pc[s] = "failed"

\* await asyncio.gather(*tasks, return_exceptions=True): the exceptions of
\* the start() tasks are returned in the result list, none is raised
GatherRaises(pc) == FALSE

\* a bug: start() spawns whether the server is running or not
StartAlways(s) == "spawn"

\* if self.is_running: return -- else start() goes on to spawn the process
StartEntry(s) == IF is_running(s) THEN "noop" ELSE "spawn"

\* start_servers(): every start() runs up to its first await; a server that
\* is running returns at once
StartServersBegin ==
    /\ bridgeOp = "idle"
    /\ OpsLeft
    /\ ops' = ops + 1
    /\ bridgeOp' = "start"
    /\ startPc' = [s \in Servers |-> StartEntry(s)]
    /\ UNCHANGED << fixedVars, written, cancelled, stalled, lastStop, second,
                    orphans, connVars, tool_to_server, startReq, stopPc,
                    lastStart, lastCall, lastResult, faults >>

\* self._process = await create_subprocess_exec(...): when _process refers to
\* a live process, assigned by another start() in the meantime, that process
\* and its read task lose their only reference and go on running
Orphaned(s) == IF process[s] = "alive" THEN 1 ELSE 0

\* create_subprocess_exec returned or raised; on success the read task is
\* created and _initialize sends its request
StartSpawn(s) ==
    /\ startPc[s] = "spawn"
    /\ \/ \* the command cannot be spawned: start() raises
          /\ FaultsLeft
          /\ faults' = faults + 1
          /\ startPc' = [startPc EXCEPT ![s] = "failed"]
          /\ UNCHANGED << connVars, startReq, written, orphans, stalled >>
       \/ /\ process' = [process EXCEPT ![s] = "alive"]
          /\ orphans' = [orphans EXCEPT ![s] = @ + Orphaned(s)]
          /\ read_task' = [read_task EXCEPT ![s] = "awaiting"]
          /\ stdout' = [stdout EXCEPT ![s] = <<>>]
          /\ stdin_lost' = [stdin_lost EXCEPT ![s] = FALSE]
          /\ send_request(s, calls[s], << Req("initialize", NextRequestId(s)) >>,
                          "initialize", <<>>)
          /\ startReq' = [startReq EXCEPT ![s] = NextRequestId(s)]
          /\ startPc' = [startPc EXCEPT ![s] = "init"]
          /\ stalled' = [stalled EXCEPT ![s] = FALSE]
          /\ UNCHANGED << tools, timedOut, warnings, notified, faults >>
    /\ UNCHANGED << fixedVars, cancelled, lastStop, second,
                    tool_to_server, bridgeOp, stopPc, lastStart,
                    lastCall, lastResult, ops >>

\* _initialize resumes: when _send_request returned (its result is not
\* looked at) it writes the notification (a closed stdin: drain() raises),
\* and _list_tools sends tools/list (not running by now: RuntimeError)
StartInitialized(s) ==
    LET i == CallIndex(s, startReq[s])
    IN  /\ startPc[s] = "init"
        /\ Returned(calls[s][i])
        /\ IF calls[s][i].st \in {"result", "none"} /\ is_running(s)
              /\ ~stdin_lost[s]
           THEN IF stalled[s]
                THEN \* the drain() of the notification does not return
                     /\ notified' = [notified EXCEPT ![s] = @ + 1]
                     /\ written' = [written EXCEPT
                                       ![s] = Append(@, Notification)]
                     /\ calls' = [calls EXCEPT
                                     ![s] = Append(Without(@, i),
                                                   DrainingCall(
                                                       Notification.id,
                                                       Notification.method))]
                     /\ startReq' = [startReq EXCEPT ![s] = Notification.id]
                     /\ UNCHANGED << request_id, allocated, pending_requests,
                                     inbox, startPc >>
                ELSE /\ notified' = [notified EXCEPT ![s] = @ + 1]
                     /\ send_request(s, Without(calls[s], i),
                                     ListAfterInitialized(written[s],
                                                          NextRequestId(s)),
                                     "tools/list", <<>>)
                     /\ startReq' = [startReq EXCEPT ![s] = NextRequestId(s)]
                     /\ startPc' = [startPc EXCEPT ![s] = "list"]
           ELSE /\ startPc' = [startPc EXCEPT ![s] = "failed"]
                /\ calls' = [calls EXCEPT ![s] = Without(@, i)]
                /\ UNCHANGED << notified, request_id, allocated, written,
                                pending_requests, inbox, startReq >>
        /\ UNCHANGED << fixedVars, cancelled, stalled, lastStop, second, orphans, process, tools, read_task, timedOut,
                        stdout, stdin_lost, warnings, tool_to_server, bridgeOp,
                        stopPc, lastStart, lastCall, lastResult, ops, faults >>

\* _list_tools resumes: self._tools is emptied and filled from
\* result["tools"]; when the result is None, result.get raises after
\* self._tools = []
StartListed(s) ==
    LET i == CallIndex(s, startReq[s])
    IN  /\ startPc[s] = "list"
        /\ Returned(calls[s][i])
        /\ calls' = [calls EXCEPT ![s] = Without(@, i)]
        /\ IF calls[s][i].st = "result"
           THEN /\ tools' = [tools EXCEPT ![s] = calls[s][i].val.tools]
                /\ startPc' = [startPc EXCEPT ![s] = "done"]
           ELSE /\ startPc' = [startPc EXCEPT ![s] = "failed"]
                /\ tools' = [tools EXCEPT ![s] =
                                 IF calls[s][i].st = "none" THEN <<>> ELSE @]
        /\ UNCHANGED << fixedVars, written, cancelled, stalled, lastStop, second,
                    orphans, process, request_id, allocated, timedOut,
                        pending_requests, read_task, inbox, stdout, stdin_lost,
                        warnings, notified, tool_to_server, bridgeOp, startReq,
                        stopPc, lastStart, lastCall, lastResult, ops, faults >>

StartFinished(pc) == pc \in {"noop", "done", "failed"}

\* server.start() is called on its own, also while a start_servers() is under
\* way: it returns at once when the server is running and goes on to spawn
\* otherwise
StartAgain(s) ==
    /\ bridgeOp # "stop"
    /\ second[s].pc = "idle"
    /\ OpsLeft
    /\ ops' = ops + 1
    /\ second' = [second EXCEPT
                     ![s].pc = IF StartEntry(s) = "noop" THEN "idle"
                               ELSE "spawn"]
    /\ UNCHANGED << fixedVars, connVars, tool_to_server, bridgeOp, startPc,
                    startReq, stopPc, lastStart, lastCall, lastResult, written,
                    cancelled, stalled, lastStop, orphans, faults >>

\* create_subprocess_exec of that start() returned or raised
SpawnAgain(s) ==
    /\ second[s].pc = "spawn"
    /\ \/ /\ FaultsLeft
          /\ faults' = faults + 1
          /\ second' = [second EXCEPT ![s] = NoSecond]
          /\ UNCHANGED << connVars, written, orphans, stalled >>
       \/ /\ process' = [process EXCEPT ![s] = "alive"]
          /\ orphans' = [orphans EXCEPT ![s] = @ + Orphaned(s)]
          /\ read_task' = [read_task EXCEPT ![s] = "awaiting"]
          /\ stdout' = [stdout EXCEPT ![s] = <<>>]
          /\ stdin_lost' = [stdin_lost EXCEPT ![s] = FALSE]
          /\ send_request(s, calls[s], << Req("initialize", NextRequestId(s)) >>,
                          "initialize", <<>>)
          /\ second' = [second EXCEPT
                           ![s] = [pc |-> "init", req |-> NextRequestId(s)]]
          /\ stalled' = [stalled EXCEPT ![s] = FALSE]
          /\ UNCHANGED << tools, timedOut, warnings, notified, faults >>
    /\ UNCHANGED << fixedVars, cancelled, lastStop, tool_to_server,
                    bridgeOp, startPc, startReq, stopPc, lastStart, lastCall,
                    lastResult, ops >>

\* _initialize of that start() resumes
InitializedAgain(s) ==
    LET i == CallIndex(s, second[s].req)
    IN  /\ second[s].pc = "init"
        /\ Returned(calls[s][i])
        /\ IF calls[s][i].st \in {"result", "none"} /\ is_running(s)
              /\ ~stdin_lost[s]
           THEN IF stalled[s]
                THEN /\ notified' = [notified EXCEPT ![s] = @ + 1]
                     /\ written' = [written EXCEPT
                                       ![s] = Append(@, Notification)]
                     /\ calls' = [calls EXCEPT
                                     ![s] = Append(Without(@, i),
                                                   DrainingCall(
                                                       Notification.id,
                                                       Notification.method))]
                     /\ second' = [second EXCEPT ![s].req = Notification.id]
                     /\ UNCHANGED << request_id, allocated, pending_requests,
                                     inbox >>
                ELSE /\ notified' = [notified EXCEPT ![s] = @ + 1]
                     /\ send_request(s, Without(calls[s], i),
                                     ListAfterInitialized(written[s],
                                                          NextRequestId(s)),
                                     "tools/list", <<>>)
                     /\ second' = [second EXCEPT
                                      ![s] = [pc |-> "list",
                                              req |-> NextRequestId(s)]]
           ELSE /\ second' = [second EXCEPT ![s] = NoSecond]
                /\ calls' = [calls EXCEPT ![s] = Without(@, i)]
                /\ UNCHANGED << notified, request_id, allocated, written,
                                pending_requests, inbox >>
        /\ UNCHANGED << fixedVars, cancelled, stalled, lastStop, orphans,
                        process, tools, read_task, timedOut, stdout,
                        stdin_lost, warnings, tool_to_server, bridgeOp,
                        startPc, startReq, stopPc, lastStart, lastCall,
                        lastResult, ops, faults >>

\* _list_tools of that start() resumes, and start() returns or raises
ListedAgain(s) ==
    LET i == CallIndex(s, second[s].req)
    IN  /\ second[s].pc = "list"
        /\ Returned(calls[s][i])
        /\ calls' = [calls EXCEPT ![s] = Without(@, i)]
        /\ second' = [second EXCEPT ![s] = NoSecond]
        /\ tools' = [tools EXCEPT
                        ![s] = CASE calls[s][i].st = "result" ->
                                        calls[s][i].val.tools
                                 [] calls[s][i].st = "none" -> <<>>
                                 [] OTHER -> @]
        /\ UNCHANGED << fixedVars, written, cancelled, stalled, lastStop,
                        orphans, process, request_id, allocated, timedOut,
                        pending_requests, read_task, inbox, stdout, stdin_lost,
                        warnings, notified, tool_to_server, bridgeOp, startPc,
                        startReq, stopPc, lastStart, lastCall, lastResult, ops,
                        faults >>

\* gather returned: the routing table is rebuilt
StartServersEnd ==
    /\ bridgeOp = "start"
    /\ \A s \in Servers : StartFinished(startPc[s])
    /\ tool_to_server' = IF GatherRaises(startPc) THEN tool_to_server
                         ELSE BuildTable(tools)
    /\ lastStart' = [n |-> ops,
                     raised |-> GatherRaises(startPc),
                     ok |-> {s \in Servers : startPc[s] = "done"},
                     failed |-> {s \in Servers : startPc[s] = "failed"}]
    /\ bridgeOp' = "idle"
    /\ startPc' = [s \in Servers |-> "idle"]
    /\ UNCHANGED << fixedVars, written, cancelled, stalled, lastStop, second,
                    orphans, connVars, startReq, stopPc, lastCall,
                    lastResult, ops, faults >>

\* stop_servers(): every stop() runs up to its first await: the read task,
\* if there is one, is cancelled
StopServersBegin ==
    /\ bridgeOp = "idle"
    /\ OpsLeft
    /\ ops' = ops + 1
    /\ bridgeOp' = "stop"
    /\ read_task' = [s \in Servers |->
                        IF read_task[s] = "awaiting" THEN "cancelled"
                        ELSE read_task[s]]
    /\ stopPc' = [s \in Servers |-> "terminate"]
    /\ UNCHANGED << fixedVars, written, cancelled, stalled, lastStop, second,
                    orphans, process, tools, request_id, pending_requests,
                    calls, allocated, timedOut, inbox, stdout, stdin_lost,
                    warnings, notified, tool_to_server, startPc, startReq,
                    lastStart, lastCall, lastResult, faults >>

\* if self._process: terminate(), wait (kill after 5 s), self._process = None.
\* terminate() on a process that has exited raises ProcessLookupError once
\* the transport has let go of it (stop() raises, _process stays), and
\* returns quietly before that.
Stop(s) ==
    /\ stopPc[s] = "terminate"
    /\ CASE process[s] = "none" ->
                /\ stopPc' = [stopPc EXCEPT ![s] = "done"]
                /\ UNCHANGED << process, inbox, stdout, stdin_lost >>
         [] process[s] = "alive" ->
                /\ stopPc' = [stopPc EXCEPT ![s] = "done"]
                /\ process' = [process EXCEPT ![s] = "none"]
                /\ inbox' = [inbox EXCEPT ![s] = {}]
                /\ stdout' = [stdout EXCEPT ![s] = <<>>]
                /\ stdin_lost' = [stdin_lost EXCEPT ![s] = FALSE]
         [] OTHER ->
                \/ /\ stopPc' = [stopPc EXCEPT ![s] = "raised"]
                   /\ UNCHANGED << process, inbox, stdout, stdin_lost >>
                \/ /\ stopPc' = [stopPc EXCEPT ![s] = "done"]
                   /\ process' = [process EXCEPT ![s] = "none"]
                   /\ stdout' = [stdout EXCEPT ![s] = <<>>]
                   /\ stdin_lost' = [stdin_lost EXCEPT ![s] = FALSE]
                   /\ UNCHANGED inbox
    /\ stalled' = [stalled EXCEPT ![s] = FALSE]
    /\ UNCHANGED << fixedVars, written, cancelled, lastStop, second,
                    orphans, tools, request_id, pending_requests, read_task,
                    calls, allocated, timedOut, warnings, notified,
                    tool_to_server,
                    bridgeOp, startPc, startReq, lastStart, lastCall,
                    lastResult, ops, faults >>

\* a stop() of stop_servers() has returned or raised
StopFinished(pc) == pc \in {"done", "raised"}

\* a bug: gather without return_exceptions raises the exception of a stop()
StopGatherRaisesFirst(pc) == \E s \in DOMAIN pc : pc[s] = "raised"

\* await asyncio.gather(*tasks, return_exceptions=True) in stop_servers():
\* the exceptions of the stop() tasks are returned, none is raised
StopGatherRaises(pc) == FALSE

\* gather(..., return_exceptions=True) returned
StopServersEnd ==
    /\ bridgeOp = "stop"
    /\ \A s \in Servers : StopFinished(stopPc[s])
    /\ lastStop' = [n |-> ops,
                    raised |-> StopGatherRaises(stopPc),
                    failed |-> {s \in Servers : stopPc[s] = "raised"}]
    /\ bridgeOp' = "idle"
    /\ stopPc' = [s \in Servers |-> "idle"]
    /\ UNCHANGED << fixedVars, written, cancelled, stalled, second,
                    orphans, connVars, tool_to_server, startPc, startReq,
                    lastStart, lastCall, lastResult, ops, faults >>

\* MCPTool(name=tool["name"], ..., server_name=self.config.name)
MCPTool(name, s) == [name |-> name, server_name |-> s]

\* the tool list `names` as reported by service s, as _list_tools stores it
Stamped(s, names) == [i \in 1..Len(names) |-> MCPTool(names[i], s)]

\* MCPServerProcess.get_tools(): self._tools
get_tools(s) == Stamped(s, tools[s])

\* tools.extend(server.get_tools()) for the servers in srv, in order
RECURSIVE ExtendAll(_, _)
ExtendAll(srv, tl) ==
    IF srv = <<>>
    THEN <<>>
    ELSE Stamped(Head(srv).name, tl[Head(srv).name]) \o ExtendAll(Tail(srv), tl)

\* MCPBridge.get_all_tools()
get_all_tools == ExtendAll(ServerSeq(mcp_servers), tools)

\* "name": f"mcp__{t.server_name}__{t.name}" of the three formatters
AdvertisedName(t) == PrefixedName(t.server_name, t.name)

\* _format_tools_for_gemini: one group that holds every declaration
format_tools_for_gemini(tl) ==
    << [function_declarations |->
            [i \in 1..Len(tl) |-> [name |-> AdvertisedName(tl[i])]]] >>

\* _format_tools_for_openai: one typed function entry per tool
format_tools_for_openai(tl) ==
    [i \in 1..Len(tl) |->
        [type |-> "function", function |-> [name |-> AdvertisedName(tl[i])]]]

\* _tool_to_unified_format, for every tool
tool_to_unified_format(tl) ==
    [i \in 1..Len(tl) |-> [name |-> AdvertisedName(tl[i])]]

\* the provider types a caller passes: the two that are known and another
ProviderTypes == {"gemini", "openai", "claude"}

\* MCPBridge.get_tools_for_provider(provider_type)
get_tools_for_provider(provider_type) ==
    CASE provider_type = "gemini" -> format_tools_for_gemini(get_all_tools)
      [] provider_type = "openai" -> format_tools_for_openai(get_all_tools)
      [] OTHER -> tool_to_unified_format(get_all_tools)

\* the names a consumer reads out of what get_tools_for_provider returned,
\* in the order of the catalog
AdvertisedNames(provider_type) ==
    LET out == get_tools_for_provider(provider_type)
    IN  CASE provider_type = "gemini" ->
                [i \in DOMAIN out[1].function_declarations |->
                    out[1].function_declarations[i].name]
          [] provider_type = "openai" ->
                [i \in DOMAIN out |-> out[i].function.name]
          [] OTHER -> [i \in DOMAIN out |-> out[i].name]

\* MCPBridge.has_tool(tool_name)
has_tool(tool_name) == tool_name \in DOMAIN tool_to_server

\* a bug: the name is forwarded as it was given
ActualNameUnstripped(tool_name, server_name) == tool_name

\* actual_name: the prefix "mcp__<server>__" is cut off when it is there
ActualName(tool_name, server_name) ==
    IF StartsWith(tool_name, Prefix(server_name))
    THEN DropPrefix(tool_name, Prefix(server_name))
    ELSE tool_name

\* a bug: a name that is not in the table goes to the first server
LookupOrFirst(tool_name) ==
    IF tool_name \in DOMAIN tool_to_server THEN tool_to_server[tool_name]
    ELSE ServerSeq(mcp_servers)[1].name

\* self._tool_to_server.get(tool_name); "" and None are both falsy
LookupServer(tool_name) ==
    IF tool_name \in DOMAIN tool_to_server THEN tool_to_server[tool_name]
    ELSE <<>>

\* a bug: is_running is not looked at
ServerKnown(server_name) == server_name \in Servers

\* whether call_tool goes past "if not server or not server.is_running"
ServerUsable(server_name) == server_name \in Servers /\ is_running(server_name)

\* the names a caller may pass to call_tool
RECURSIVE NamesOf(_)
NamesOf(cfg) ==
    IF cfg = <<>>
    THEN {}
    ELSE LET e == Head(cfg)
         IN  UNION {{e.svc_tools[i], PrefixedName(e.name, e.svc_tools[i]),
                     SpecName(e.name, e.svc_tools[i])} :
                        i \in 1..Len(e.svc_tools)}
             \cup NamesOf(Tail(cfg))

CallNames == NamesOf(mcp_servers) \cup {<<"does-not-exist">>}

\* _send_request when stdin is closed: the id is allocated and the future
\* registered, then drain() raises; the pending entry stays behind
send_request_lost(s) ==
    LET id == NextRequestId(s)
    IN  /\ request_id' = [request_id EXCEPT ![s] = id]
        /\ allocated' = [allocated EXCEPT ![s] = Append(@, id)]
        /\ pending_requests' = [pending_requests EXCEPT ![s] = @ \cup {id}]
        /\ UNCHANGED << calls, inbox, written >>

\* the MCPToolResult that Bridge.call_tool builds itself
BridgeResult(error) ==
    [server |-> <<>>, id |-> 0, success |-> FALSE, content |-> NoVal,
     error |-> error, raised |-> FALSE]

\* Bridge.call_tool(tool_name, arguments) up to its first await
CallTool(tool_name) ==
    LET server_name == LookupServer(tool_name)
        res(kind, id, wire, error, result) ==
            [n |-> ops + 1, name |-> tool_name, kind |-> kind,
             server |-> server_name, id |-> id, wire |-> wire, error |-> error,
             result |-> result]
        unknown == <<"Unknown tool: ">> \o tool_name
        notrunning == <<"MCP server ">> \o server_name \o <<" is not running">>
    IN  /\ bridgeOp = "idle"
        /\ OpsLeft
        /\ ops' = ops + 1
        /\ IF server_name = <<>>
           THEN /\ lastCall' = res("unknown", 0, <<>>, unknown,
                                   BridgeResult(unknown))
                /\ UNCHANGED << request_id, allocated, pending_requests, calls,
                                inbox, written, lastResult >>
           ELSE IF ~ServerUsable(server_name)
           THEN /\ lastCall' = res("notrunning", 0, <<>>, notrunning,
                                   BridgeResult(notrunning))
                /\ UNCHANGED << request_id, allocated, pending_requests, calls,
                                inbox, written, lastResult >>
           ELSE \* server.call_tool(actual_name, arguments) -> _send_request
                /\ lastCall' = res("forward", NextRequestId(server_name),
                                   ActualName(tool_name, server_name), <<>>,
                                   NoResult)
                /\ IF stdin_lost[server_name]
                   THEN /\ send_request_lost(server_name)
                        /\ lastResult' =
                               ToolResult(server_name,
                                          NextRequestId(server_name), "error",
                                          NoVal, <<"Connection lost">>)
                   ELSE IF stalled[server_name]
                   THEN /\ send_request_stalled(
                               server_name, calls[server_name],
                               Append(written[server_name],
                                      Req("tools/call",
                                          NextRequestId(server_name))),
                               "tools/call")
                        /\ UNCHANGED lastResult
                   ELSE /\ send_request(server_name, calls[server_name],
                                        Append(written[server_name],
                                               Req("tools/call",
                                                   NextRequestId(server_name))),
                                        "tools/call",
                                        ActualName(tool_name, server_name))
                        /\ UNCHANGED lastResult
        /\ UNCHANGED << fixedVars, cancelled, stalled, lastStop, second, orphans, process, tools, read_task, timedOut,
                        stdout, stdin_lost, warnings, notified, tool_to_server,
                        bridgeOp, startPc, startReq, stopPc, lastStart,
                        faults >>

Next ==
    \/ StartServersBegin
    \/ \E s \in Servers : StartSpawn(s)
    \/ \E s \in Servers : StartInitialized(s)
    \/ \E s \in Servers : StartListed(s)
    \/ StartServersEnd
    \/ StopServersBegin
    \/ \E s \in Servers : Stop(s)
    \/ StopServersEnd
    \/ \E n \in CallNames : CallTool(n)
    \/ \E s \in Servers : Timeout(s)
    \/ \E s \in Servers : TimeoutRaise(s)
    \/ \E s \in Servers : CancelCaller(s)
    \/ \E s \in Servers : ReadResponses(s)
    \/ \E s \in Servers : SvcReply(s)
    \/ \E s \in Servers : SvcNoise(s)
    \/ \E s \in Servers : SvcExit(s)
    \/ \E s \in Servers : SvcCloseStdin(s)

Spec == Init /\ [][Next]_vars

\* the Bridge with one server whose service can stop reading its stdin, and
\* with a timer that runs out whenever a wait_for is waiting
NextLive ==
    \/ StartServersBegin
    \/ \E s \in Servers : StartSpawn(s)
    \/ \E s \in Servers : StartInitialized(s)
    \/ \E s \in Servers : StartListed(s)
    \/ StartServersEnd
    \/ StopServersBegin
    \/ \E s \in Servers : Stop(s)
    \/ StopServersEnd
    \/ \E n \in CallNames : CallTool(n)
    \/ \E s \in Servers : Timeout(s)
    \/ \E s \in Servers : TimeoutRaise(s)
    \/ \E s \in Servers : CancelCaller(s)
    \/ \E s \in Servers : ReadResponses(s)
    \/ \E s \in Servers : SvcReply(s)
    \/ \E s \in Servers : SvcNoise(s)
    \/ \E s \in Servers : SvcExit(s)
    \/ \E s \in Servers : SvcCloseStdin(s)
    \/ \E s \in Servers : SvcStall(s)
    \/ \E s \in Servers : DrainFails(s)
    \/ \E s \in Servers : TimeoutAny(s)

InitLive == InitBridge(CfgOne) /\ ta_in = NoInput /\ ta_out = NoOutput

\* the timer of every wait_for fires, the event loop runs the read task and
\* resumes a _send_request whose future is done or whose drain() has failed
Fairness ==
    /\ WF_vars(\E s \in Servers : Timeout(s) \/ TimeoutAny(s))
    /\ WF_vars(\E s \in Servers : TimeoutRaise(s))
    /\ WF_vars(\E s \in Servers : ReadResponses(s))
    /\ WF_vars(\E s \in Servers : DrainFails(s))

SpecLive == InitLive /\ [][NextLive]_vars /\ Fairness

\* no connection has orphaned a process
Intact == \A s \in Servers : orphans[s] = 0

\* the Bridge with start() calls of single connections next to
\* start_servers().  What two read tasks on one stdout do is not followed up:
\* once a process has been orphaned no further step is taken.
NextOverlap ==
    \/ Intact /\ StartServersBegin
    \/ \E s \in Servers : Intact /\ StartSpawn(s)
    \/ \E s \in Servers : Intact /\ StartInitialized(s)
    \/ \E s \in Servers : Intact /\ StartListed(s)
    \/ Intact /\ StartServersEnd
    \/ Intact /\ StopServersBegin
    \/ \E s \in Servers : Intact /\ Stop(s)
    \/ Intact /\ StopServersEnd
    \/ \E n \in CallNames : Intact /\ CallTool(n)
    \/ \E s \in Servers : Intact /\ Timeout(s)
    \/ \E s \in Servers : Intact /\ TimeoutRaise(s)
    \/ \E s \in Servers : Intact /\ CancelCaller(s)
    \/ \E s \in Servers : Intact /\ ReadResponses(s)
    \/ \E s \in Servers : Intact /\ SvcReply(s)
    \/ \E s \in Servers : Intact /\ SvcNoise(s)
    \/ \E s \in Servers : Intact /\ SvcExit(s)
    \/ \E s \in Servers : Intact /\ SvcCloseStdin(s)
    \/ \E s \in Servers : Intact /\ StartAgain(s)
    \/ \E s \in Servers : Intact /\ SpawnAgain(s)
    \/ \E s \in Servers : Intact /\ InitializedAgain(s)
    \/ \E s \in Servers : Intact /\ ListedAgain(s)

SpecOverlap == Init /\ [][NextOverlap]_vars

\* ------------------------------------------------------------------ claims
\* the routing table is the one the last start_servers() built
TableCurrent == bridgeOp # "start" /\ lastStart.n > 0

\* C1: on one connection, whatever the order in which the subprocess answers
\* the outstanding requests, a _send_request returns the result carried by
\* the response whose id is the id allocated to that request.
C1_CorrelationById ==
    /\ lastResult.success => lastResult.content.tag = lastResult.id
    /\ \A s \in Servers : \A i \in 1..Len(calls[s]) :
          calls[s][i].st = "result" => calls[s][i].val.tag = calls[s][i].id

\* requests 3 and 4 were outstanding together, 4 was answered first, and 3
\* got its own result after that
C1_Witness ==
    \E s \in Servers :
        /\ lastResult.server = s /\ lastResult.success /\ lastResult.id = 3
        /\ allocated[s] = <<1, 2, 3, 4>>
        /\ calls[s] = <<>> /\ timedOut[s] = {} /\ faults = 0

\* this step is one iteration of the read loop of s taking a line
ReadStep(s) ==
    /\ read_task[s] = "awaiting"
    /\ stdout[s] # <<>>
    /\ stdout'[s] = Tail(stdout[s])
    /\ process'[s] = process[s]

\* the invocations of s that are still with their caller, but for request id
Others(q, id) == {q[i] : i \in {j \in 1..Len(q) : q[j].id # id}}

C3_MalformedLineSkipped ==
    [][\A s \in Servers :
          (ReadStep(s) /\ Head(stdout[s]).kind \in {"text", "binary"})
          => /\ read_task'[s] = IF process[s] = "alive" THEN "awaiting" ELSE "done"
             /\ UNCHANGED << pending_requests, calls, lastResult >>
      ]_vars

\* C4: the request ids of one connection start at 1 and are strictly
\* increasing for the life of the connection object; no id is given twice,
\* also not after a timeout, a failed request, or stop() and a new start().
C4_RequestIdsIncrease ==
    \A s \in Servers :
        /\ allocated[s] # <<>> => allocated[s][1] = 1
        /\ \A i, j \in 1..Len(allocated[s]) :
              i < j => allocated[s][i] < allocated[s][j]

\* a connection that was started, stopped and started again, with a request
\* that timed out on the way
C4_Witness ==
    \E s \in Servers :
        /\ Len(allocated[s]) >= 4
        /\ process[s] = "alive"
        /\ lastStart.n = 3 /\ s \in lastStart.ok
        /\ timedOut[s] # {}

\* this step is a Bridge.call_tool
CallStep == lastCall' # lastCall

\* the tool catalog of s as a set
ToolSet(s) == {tools[s][i] : i \in 1..Len(tools[s])}

\* position of s in the configuration order of self._servers
Index(s) ==
    CHOOSE i \in 1..Len(ServerSeq(mcp_servers)) : ServerSeq(mcp_servers)[i].name = s

\* the request of the call_tool of this step is on the wire to s, with `name`
\* as params.name
OnWire(s, name) ==
    /\ lastCall'.wire = name
    /\ lastCall'.id = request_id'[s]
    /\ \/ stdin_lost[s]     \* written, and dropped by the closed pipe
       \/ \E r \in inbox'[s] :
             /\ r.id = lastCall'.id
             /\ r.method = "tools/call"
             /\ r.name = name

Registers(t, k) == \E T \in ToolSet(t) : k = T \/ k = PrefixedName(t, T)

C7_NamespacedUnambiguous ==
    TableCurrent =>
       /\ \A s \in Servers : \A T \in ToolSet(s) :
             /\ PrefixedName(s, T) \in DOMAIN tool_to_server
             /\ tool_to_server[PrefixedName(s, T)] = s
       /\ \A s1, s2 \in Servers : \A T1 \in ToolSet(s1) : \A T2 \in ToolSet(s2) :
             <<s1, T1>> # <<s2, T2>> => PrefixedName(s1, T1) # PrefixedName(s2, T2)

\* C8: call_tool with a name that is not in the routing table returns
\* success=False with "Unknown tool: <name>" and touches no connection: no id
\* is allocated, nothing is written, no pending entry is made.
C8_UnknownTool ==
    [][(CallStep /\ lastCall'.name \notin DOMAIN tool_to_server)
       => /\ lastCall'.kind = "unknown"
          /\ lastCall'.error = <<"Unknown tool: ">> \o lastCall'.name
          /\ UNCHANGED << process, request_id, allocated, pending_requests,
                          calls, inbox, stdout, read_task, lastResult >>
      ]_vars

\* an unknown name was called while a server with tools was running
C8_Witness ==
    /\ lastCall.kind = "unknown"
    /\ lastCall.name = <<"does-not-exist">>
    /\ TableCurrent
    /\ \E s \in Servers : is_running(s) /\ tools[s] # <<>>

\* C9: once the server the routing table maps a name to has been stopped, or
\* its process has exited, call_tool for that name returns at once
\* success=False with "... is not running"; no request is sent.
C9_NotRunning ==
    [][\A s \in Servers :
          (/\ CallStep
           /\ lastCall'.name \in DOMAIN tool_to_server
           /\ tool_to_server[lastCall'.name] = s
           /\ process[s] \in {"none", "exited"})
          => /\ lastCall'.kind = "notrunning"
             /\ lastCall'.error = <<"MCP server ">> \o s \o <<" is not running">>
             /\ Contains(lastCall'.error, " is not running")
             /\ UNCHANGED << process, request_id, allocated, pending_requests,
                             calls, inbox, stdout, read_task, lastResult >>
      ]_vars

\* a tool of a server that was started and then stopped was called
C9_Witness ==
    \E s \in Servers :
        /\ lastCall.kind = "notrunning" /\ lastCall.server = s
        /\ process[s] = "none"
        /\ tools[s] # <<>>
        /\ lastCall.name \in ToolSet(s)

\* C10: start_servers() does not raise when a start() fails; the failure
\* leaves the other start() tasks as they are, and the tools of every server
\* whose start() completed are keys of the routing table afterwards.
C10_PartialStart ==
    [][/\ lastStart.n > 0 => ~lastStart.raised
       /\ TableCurrent =>
             \A s \in lastStart.ok :
                /\ tools[s] = SvcTools(s)
                /\ \A T \in ToolSet(s) :
                      {T, PrefixedName(s, T)} \subseteq DOMAIN tool_to_server
       /\ \A s \in Servers :
             (startPc[s] # "failed" /\ startPc'[s] = "failed")
             => /\ bridgeOp' = "start"
                /\ \A t \in Servers \ {s} :
                      /\ startPc'[t] = startPc[t]
                      /\ process'[t] = process[t]
                      /\ read_task'[t] = read_task[t]
                      /\ calls'[t] = calls[t]
                      /\ pending_requests'[t] = pending_requests[t]
      ]_vars

\* one start() failed, another completed, and its tools are in the table
C10_Witness ==
    /\ bridgeOp = "idle"
    /\ lastStart.failed # {}
    /\ \E s \in lastStart.ok :
          /\ is_running(s)
          /\ tools[s] # <<>>
          /\ \A T \in ToolSet(s) : tool_to_server[PrefixedName(s, T)] = s

\* this step is the return of a start_servers()
StartServersReturns == bridgeOp = "start" /\ bridgeOp' = "idle"

\* C11 as stated: when a start_servers() returns, every entry of the routing
\* table belongs to a connection that is running at that moment, and a
\* connection whose start() failed has no entry, bare or namespaced.
C11_TableOnlyRunning ==
    [][StartServersReturns =>
          /\ \A k \in DOMAIN tool_to_server' :
                process'[tool_to_server'[k]] = "alive"
          /\ \A s \in lastStart'.failed : \A k \in DOMAIN tool_to_server' :
                tool_to_server'[k] # s
      ]_vars

\* the tools of s in get_all_tools(), in order
ToolsOf(all, s) == SelectSeq(all, LAMBDA t : t.server_name = s)

\* C12 as stated: when a start_servers() returns, get_all_tools() holds, in
\* configuration order, the tools/list reply of every service that started
\* successfully, stamped with the service name, and no tool of a service
\* whose start failed.
C12_AllToolsAfterStart ==
    [][StartServersReturns =>
          /\ get_all_tools' = ExtendAll(ServerSeq(mcp_servers), tools')
          /\ \A s \in lastStart'.ok :
                ToolsOf(get_all_tools', s) = Stamped(s, SvcTools(s))
          /\ \A s \in lastStart'.failed : ToolsOf(get_all_tools', s) = <<>>
      ]_vars

\* C13 as stated: get_all_tools() returns tools of connections that are
\* running only.
C13_AllToolsRunningOnly ==
    \A i \in 1..Len(get_all_tools) : is_running(get_all_tools[i].server_name)

\* this step is a start() of s raising to its caller
StartRaises(s) == startPc[s] # "failed" /\ startPc'[s] = "failed"

\* C14 as stated: when a step of start() fails, the exception goes to the
\* caller and the connection is stopped: it is not running, and neither its
\* subprocess nor its read loop is left alive.
C14_FailedStartLeavesStopped ==
    [][\A s \in Servers :
          StartRaises(s) => /\ process'[s] # "alive"
                            /\ read_task'[s] # "awaiting"
      ]_vars

\* this step is the stop() of s returning or raising
StopStep(s) == stopPc[s] = "terminate" /\ stopPc'[s] # "terminate"

\* the fields of the connection s
ConnState(s) ==
    << process[s], tools[s], request_id[s], pending_requests[s], read_task[s] >>

\* C17 as stated: stop() on a connection that is stopped already, was never
\* started, or whose process has exited raises nothing and leaves the
\* connection not running; on a connection without a process it changes
\* nothing.
C17_StopIdempotent ==
    [][\A s \in Servers :
          /\ (StopStep(s) /\ ~is_running(s))
             => /\ stopPc'[s] = "done"
                /\ process'[s] # "alive"
                /\ process[s] = "none" => ConnState(s)' = ConnState(s)
          /\ (bridgeOp = "idle" /\ bridgeOp' = "stop" /\ process[s] = "none")
             => ConnState(s)' = ConnState(s)
      ]_vars

\* C18 as stated: when stop() returns, the pending map of the connection is
\* empty and no _send_request is left waiting on its future.
C18_StopFailsPending ==
    [][\A s \in Servers :
          StopStep(s)
          => /\ pending_requests'[s] = {}
             /\ \A i \in 1..Len(calls'[s]) : calls'[s][i].st # "waiting"
      ]_vars

\* this step is the call of start_servers()
StartServersCalled == bridgeOp = "idle" /\ bridgeOp' = "start"

\* C19 as stated: a process comes to life only in a start() of
\* start_servers(); a start_servers() attempts the spawn again for every
\* service that crashed, was stopped, or whose last start failed, and
\* leaves the other running services alone; the services whose start
\* completes are running, with their tools in the routing table.
C19_RestartByStartServers ==
    [][/\ \A s \in Servers :
             (process[s] # "alive" /\ process'[s] = "alive")
             => (bridgeOp = "start" /\ startPc[s] = "spawn")
       /\ StartServersCalled =>
             \A s \in Servers :
                startPc'[s] = IF ~is_running(s) \/ s \in lastStart.failed
                              THEN "spawn" ELSE "noop"
       /\ \A s \in Servers :
             (startPc[s] = "list" /\ startPc'[s] = "done")
             => (process'[s] = "alive" /\ tools'[s] = SvcTools(s))
       /\ StartServersReturns =>
             \A s \in lastStart'.ok : \A T \in ToolSet(s)' :
                {T, PrefixedName(s, T)} \subseteq DOMAIN tool_to_server'
      ]_vars

\* the invocation of s waiting on request id is a tools/call
IsToolCall(s, id) ==
    \E i \in 1..Len(calls[s]) :
        calls[s][i].id = id /\ calls[s][i].method = "tools/call"

\* the server's call_tool for request id of s returned `false` with error e
Failed(r, s, id, e) ==
    /\ r.server = s /\ r.id = id /\ ~r.raised
    /\ ~r.success /\ r.error = e

\* C15: call_tool of a server and of the Bridge never raise: an unknown
\* tool, a server that is not running, a timeout, a JSON-RPC error reply, a
\* reply without a result and a failed write to stdin each come back as an
\* MCPToolResult with success=False and the message as error.
C15_CallToolNeverRaises ==
    [][/\ ~lastResult'.raised /\ ~lastCall'.result.raised
       /\ CallStep =>
             /\ lastCall'.kind \in {"unknown", "notrunning"}
                => Failed(lastCall'.result, <<>>, 0, lastCall'.error)
             /\ (lastCall'.kind = "forward" /\ stdin_lost[lastCall'.server])
                => Failed(lastResult', lastCall'.server, lastCall'.id,
                          <<"Connection lost">>)
       /\ \A s \in Servers :
             /\ \A id \in timedOut'[s] \ timedOut[s] :
                   IsToolCall(s, id)
                   => Failed(lastResult', s, id,
                             <<"MCP request ", "tools/call", " timed out">>)
             /\ (/\ ReadStep(s)
                 /\ Head(stdout[s]).kind \in {"error", "none"}
                 /\ Head(stdout[s]).id \in pending_requests[s]
                 /\ Head(stdout[s]).id \notin cancelled[s]
                 /\ IsToolCall(s, Head(stdout[s]).id))
                => Failed(lastResult', s, Head(stdout[s]).id,
                          IF Head(stdout[s]).kind = "none" THEN NoneHasNoGet
                          ELSE Head(stdout[s]).msg)
      ]_vars

\* a tools/call was answered without a result, and call_tool returned the
\* failure
C15_Witness ==
    /\ lastResult.id > 2
    /\ ~lastResult.success /\ ~lastResult.raised
    /\ lastResult.error = NoneHasNoGet

\* an MCPToolResult is populated as one whole
WellFormed(r) ==
    /\ r.success => r.error = None
    /\ ~r.success => (r.content = NoVal /\ r.error # None)

\* C16: every MCPToolResult that a call_tool returns has success=True and
\* no error, or success=False, no content and an error string.
C16_ResultNeverPartial ==
    /\ lastResult # NoResult => WellFormed(lastResult)
    /\ lastCall.kind \in {"unknown", "notrunning"} => WellFormed(lastCall.result)

\* the second call_tool of a server failed on a JSON-RPC error reply
C16_Witness ==
    /\ lastResult.id > 3
    /\ ~lastResult.success
    /\ lastResult.content = NoVal
    /\ lastResult.error = <<"boom">>

\* the names of the configuration entries of type "http"
HttpNames ==
    {mcp_servers[i].name : i \in {j \in 1..Len(mcp_servers) :
                                     mcp_servers[j].type = "http"}}

\* C20: a configuration entry of type "http" has no MCPServerProcess: no
\* process is spawned for it, and none of its tools is in get_all_tools()
\* or in the routing table.
C20_HttpNeverConnected ==
    \A h \in HttpNames :
        /\ h \notin Servers
        /\ h \notin DOMAIN process
        /\ \A i \in 1..Len(get_all_tools) : get_all_tools[i].server_name # h
        /\ \A k \in DOMAIN tool_to_server : tool_to_server[k] # h

\* a Bridge with an http entry has started its servers and stopped them
C20_Witness ==
    /\ HttpNames # {}
    /\ lastStart.n > 0 /\ lastStart.ok # {}
    /\ DOMAIN tool_to_server # {}
    /\ bridgeOp = "idle" /\ ops = 2
    /\ \A s \in Servers : process[s] = "none"

\* ------------------------------------------------ routing/task_analyzer.py
LARGE_CONTEXT_THRESHOLD == 10000

\* len(spec_content) < 2000 makes a task a quick iteration
QuickLength == 2000

\* is_typescript_heavy: at least this many of the ts_markers occur
TsMarkersNeeded == 2

\* _FALLBACK_ORDER
FALLBACK_ORDER == <<"claude", "gemini", "codex", "openai", "opencode">>

\* str.lower() on the provider names that occur
Lower(p) ==
    CASE p = "Claude" -> "claude"
      [] p = "GEMINI" -> "gemini"
      [] OTHER -> p

\* blocked = {provider.lower() for provider in (rate_limited_providers or [])}
Blocked(rate_limited_providers) == {Lower(p) : p \in rate_limited_providers}

\* a or b on strings: None and "" are both falsy and written ""
Or(a, b) == IF a # "" THEN a ELSE b

\* _collect_signals; a spec_content is given by its length, the number of
\* ts_markers and whether one of the quick_markers occurs in it
collect_signals(c) ==
    [is_large_context |-> c.len > LARGE_CONTEXT_THRESHOLD,
     is_typescript_heavy |-> c.ts_markers >= TsMarkersNeeded,
     is_quick_iteration |-> c.len < QuickLength \/ c.quick_marker]

\* for provider in _FALLBACK_ORDER: if provider not in blocked: return
RECURSIVE FirstFree(_, _, _)
FirstFree(order, blocked, fallback) ==
    IF order = <<>> THEN fallback
    ELSE IF Head(order) \notin blocked THEN Head(order)
    ELSE FirstFree(Tail(order), blocked, fallback)

\* a bug: the preferred provider is taken whether it is blocked or not
PickPreferred(preferred, blocked, fallback) == Lower(Or(preferred, fallback))

\* _pick_provider
pick_provider(preferred, blocked, fallback) ==
    LET pref == Lower(Or(preferred, fallback))
    IN  IF pref \notin blocked THEN pref
        ELSE FirstFree(FALLBACK_ORDER, blocked, fallback)

\* analyze: the provider_type of the three recommendations
analyze(c) ==
    LET blocked == Blocked(c.rate_limited_providers)
        signals == collect_signals(c)
    IN  [planning |->
            pick_provider(
                Or(c.user_defaults.planning,
                   IF signals.is_large_context THEN "gemini" ELSE "claude"),
                blocked, "claude"),
         coding |->
            pick_provider(
                Or(c.user_defaults.coding,
                   IF signals.is_typescript_heavy THEN "claude"
                   ELSE IF signals.is_quick_iteration THEN "codex"
                   ELSE "claude"),
                blocked, "claude"),
         qa |->
            pick_provider(
                Or(c.user_defaults.qa,
                   IF signals.is_quick_iteration /\ ~signals.is_typescript_heavy
                   THEN "codex" ELSE "claude"),
                blocked, "claude")]

\* the arguments tried: lengths around the two thresholds, user defaults
\* absent, in another case and outside the fallback order, and every set of
\* rate-limited providers over the names below
Lengths == {QuickLength - 1, QuickLength, LARGE_CONTEXT_THRESHOLD + 1}

Defaults == {"", "Claude", "mistral"}

Providers ==
    {"claude", "gemini", "codex", "openai", "opencode", "GEMINI", "mistral"}

Inputs ==
    [len : Lengths, ts_markers : 0..TsMarkersNeeded, quick_marker : BOOLEAN,
     user_defaults : [planning : Defaults, coding : Defaults, qa : Defaults],
     rate_limited_providers : SUBSET Providers]

\* a TaskAnalyzer and the arguments of one analyze call; no Bridge
InitAnalyzer ==
    /\ InitBridge(<<>>)
    /\ ta_in \in Inputs
    /\ ta_out = NoOutput

\* result = analyzer.analyze(spec_content, user_defaults=...,
\*                           rate_limited_providers=...)
Analyze ==
    /\ ta_out = NoOutput
    /\ ta_out' = analyze(ta_in)
    /\ UNCHANGED << ta_in, mcpVars >>

NextAnalyzer == Analyze

SpecAnalyzer == InitAnalyzer /\ [][NextAnalyzer]_vars

Phases == {"planning", "coding", "qa"}

\* C21 as stated: the provider recommended for a phase is never one of the
\* rate-limited providers.
C21_Original ==
    ta_out # NoOutput =>
       \A ph \in Phases :
          /\ ta_out[ph] \notin ta_in.rate_limited_providers
          /\ ta_out[ph] \notin Blocked(ta_in.rate_limited_providers)

\* one of the providers of _FALLBACK_ORDER is not rate-limited
SomeFree(blocked) ==
    \E i \in 1..Len(FALLBACK_ORDER) : FALLBACK_ORDER[i] \notin blocked

\* C21, amended: as long as one provider of the fallback order is not
\* rate-limited (names compared in lower case), the provider recommended
\* for a phase is not rate-limited; when all five are, a phase whose
\* preferred provider is rate-limited too gets "claude".
C21_RateLimitedSkipped ==
    ta_out # NoOutput =>
       LET blocked == Blocked(ta_in.rate_limited_providers)
       IN  \A ph \in Phases :
              /\ SomeFree(blocked) =>
                    /\ ta_out[ph] \notin blocked
                    /\ ta_out[ph] \notin ta_in.rate_limited_providers
              /\ ta_out[ph] \in blocked => ta_out[ph] = "claude"

\* claude is rate-limited and a TypeScript-heavy task gets another provider
\* for coding
C21_Witness ==
    /\ ta_out # NoOutput
    /\ ta_in.rate_limited_providers = {"claude"}
    /\ ta_in.ts_markers = TsMarkersNeeded
    /\ ta_in.user_defaults.coding = ""
    /\ ta_out.coding = "gemini"

\* the positions in the lines written to the process of s that hold `line`
Positions(s, line) == {i \in 1..Len(written[s]) : written[s][i] = line}

\* the record of the _send_request that the start() of s is waiting for
StartCall(s) == CallOf(s, startReq[s])

StartFootprint(s) ==
    << process[s], read_task[s], written[s], request_id[s], allocated[s],
       tools[s], pending_requests[s], inbox[s], stdout[s], calls[s],
       orphans[s] >>

\* C23: start() on a connection that is running is a no-op: no process is
\* spawned, no second read loop started, no request written, no request id
\* allocated, and the tool catalog and the pending map stay as they are.
C23_StartNoOpWhenRunning ==
    [][\A s \in Servers :
          /\ (StartServersCalled /\ is_running(s))
             => /\ startPc'[s] = "noop"
                /\ StartFootprint(s)' = StartFootprint(s)
          /\ (startPc[s] = "noop" /\ startPc'[s] # "noop")
             => /\ StartServersReturns
                /\ StartFootprint(s)' = StartFootprint(s)
      ]_vars

\* a second start_servers() found the server running, with its catalog
C23_Witness ==
    \E s \in Servers :
        /\ startPc[s] = "noop"
        /\ is_running(s)
        /\ s \in lastStart.ok
        /\ tools[s] # <<>>
        /\ written[s] = << Req("initialize", 1), Notification, Req("tools/list", 2) >>

\* the line is a JSON object: a response or a notification of the service
IsResponse(line) == line.kind \in {"result", "error", "baderror", "none"}

\* the invocation of s that holds request id ended with the outcome of line
Resolved(s, line) ==
    \/ /\ lastResult'.server = s /\ lastResult'.id = line.id
       /\ lastResult'.success = (line.kind = "result")
       /\ line.kind = "result" => lastResult'.content = line.val
       /\ Others(calls'[s], line.id) = Others(calls[s], line.id)
    \/ /\ \E i \in 1..Len(calls'[s]) :
              /\ calls'[s][i].id = line.id
              /\ calls'[s][i].st = line.kind
              /\ calls'[s][i].val = line.val
       /\ Others(calls'[s], line.id) = Others(calls[s], line.id)
       /\ UNCHANGED lastResult

\* C24 as stated: the read loop delivers a response to at most one request
\* and changes nothing else: a response whose id is in the pending map
\* removes exactly that entry and ends that request with the result or the
\* error, a response whose id is not in the map (unknown, missing, duplicate,
\* after the timeout) leaves the map and every invocation as they are; in
\* both cases the read loop goes on.
C24_ResponseToOneRequest ==
    [][\A s \in Servers :
          (ReadStep(s) /\ IsResponse(Head(stdout[s])))
          => LET line == Head(stdout[s])
             IN  /\ read_task'[s] = AfterLine(s)
                 /\ \A t \in Servers \ {s} :
                       pending_requests'[t] = pending_requests[t]
                 /\ IF line.id # 0 /\ line.id \in pending_requests[s]
                    THEN /\ pending_requests'[s] =
                               pending_requests[s] \ {line.id}
                         /\ Resolved(s, line)
                    ELSE UNCHANGED << pending_requests, calls, lastResult >>
      ]_vars

\* this step is the return of stop_servers()
StopServersReturns == bridgeOp = "stop" /\ bridgeOp' = "idle"

\* C25: when stop_servers() returns, no connection is running, whatever the
\* single stop() calls did: stop_servers() does not raise when a stop()
\* raised, every connection whose stop() returned has no process left, and
\* a connection whose stop() raised has a process that has exited; a stop()
\* that raises leaves the stop() calls of the other connections alone.
C25_StopServersStopsAll ==
    [][/\ StopServersReturns
          => /\ \A s \in Servers : ~is_running(s)'
             /\ ~lastStop'.raised
             /\ \A s \in Servers \ lastStop'.failed : process'[s] = "none"
             /\ \A s \in lastStop'.failed : process'[s] = "exited"
       /\ \A s \in Servers :
             (StopStep(s) /\ stopPc'[s] = "raised")
             => \A t \in Servers \ {s} :
                   /\ stopPc'[t] = stopPc[t]
                   /\ process'[t] = process[t]
      ]_vars

\* stop_servers() has returned after the stop() of one connection raised on
\* a process that had exited, and another connection, started by the same
\* start_servers(), was stopped
C25_Witness ==
    /\ bridgeOp = "idle"
    /\ lastStop.n > 0
    /\ ~lastStop.raised
    /\ \E s \in lastStop.failed :
          \E t \in Servers \ lastStop.failed :
             /\ {s, t} \subseteq lastStart.ok
             /\ process[s] = "exited"
             /\ process[t] = "none"

\* C26 as stated: at every moment, also while a start_servers() is under way,
\* every name that get_tools_for_provider advertises, in each of the three
\* shapes, is known to has_tool and is routed by call_tool to the server
\* that owns the advertised tool, never to the "Unknown tool" result.
C26_AdvertisedCallable ==
    \A p \in ProviderTypes :
        LET adv == AdvertisedNames(p)
        IN  \A i \in DOMAIN adv :
                /\ has_tool(adv[i])
                /\ LookupServer(adv[i]) = get_all_tools[i].server_name

\* C27 as stated: while a connection is running, its read loop is alive: it
\* ends only when stdout closes, the process exits or stop() cancels it; no
\* content of a line that was received ends it.
C27_ReadLoopAlive ==
    \A s \in Servers :
        (is_running(s) /\ stopPc[s] # "terminate")
        => read_task[s] = "awaiting"

\* the ids of the _send_request invocations of s that have not returned or
\* raised yet
Waiting(s) ==
    {calls[s][i].id :
        i \in {j \in 1..Len(calls[s]) :
                  /\ calls[s][j].st \in {"waiting", "cancelled", "draining"}
                  /\ calls[s][j].method # Notification.method}}

\* C29 as stated: the pending map of a connection holds exactly the ids of
\* the _send_request invocations that are still waiting; once an invocation
\* has returned or raised, for whatever reason, its id is not in the map.
C29_PendingIsWaiting ==
    \A s \in Servers : pending_requests[s] = Waiting(s)

\* C28 as stated: a connection owns at most one live subprocess and one read
\* loop at any time, also when start() is called again while an earlier
\* start() of the connection is suspended: no process is spawned whose
\* handle is lost.
C28_OneProcess ==
    \A s \in Servers : orphans[s] = 0

\* the _send_request invocations that have passed the running check and have
\* not returned or raised
Outstanding == UNION {Waiting(s) : s \in Servers}

\* C30 as stated: every _send_request that has passed the running check
\* returns or raises in the end, when the timer and the read loop get their
\* turns: from some point on no invocation is left outstanding.
C30_SendRequestCompletes == <>[](Outstanding = {})

====
